---- MODULE Spec2Model ----
(***************************************************************************)
(* RunFunctionProgressBar (src/progress_bar.py): a Qt widget that runs a   *)
(* closure on a QThread (FunctionWorker), animates a QTimer driven         *)
(* percentage (FunctionTimer) and keeps the last execution times per       *)
(* function key (PredictionTime).                                          *)
(*                                                                         *)
(* Threads of control: the Qt main thread (event loop: slots, timers,      *)
(* close requests, run() calls) and one worker thread per FunctionWorker.  *)
(* Signals emitted by the worker thread are queued connections: they are   *)
(* posted to the main thread's event queue and handled there in order.     *)
(* Signals emitted on the main thread are delivered synchronously.         *)
(*                                                                         *)
(* Every time (time.time(), a duration, a seed) is an integer number of    *)
(* milliseconds.                                                           *)
(***************************************************************************)
EXTENDS Integers, Sequences, FiniteSets, TLC

\* ---------------------------------------------------------------- constants
\* PredictionTime.QUEUE_LEN
QUEUE_LEN == 3
\* get_percentage(max_per=99)
MAX_PER == 99
\* finish(): progress_changed.emit(100)
FULL_PER == 100
\* increment(): if self.i < 100
TICK_LIMIT == 100
\* milliseconds in a second (millisec = end_time/100*1000)
MSEC_PER_SEC == 1000

\* ------------------------------------------------------------------- bounds
\* how many external stimuli (run() calls, close requests, timer timeouts,
\* clock ticks) a behaviour of Spec holds
MaxStimuli == 4
\* the same for SpecRerun
MaxRerunStimuli == 6
\* how many update_time calls a behaviour of SpecHist holds
MaxOps == 5
\* how many run() calls, timeouts and idle seconds a behaviour of SpecClock holds
MaxClockStimuli == 102
\* how many times a window of SpecClock is run
MaxClockRuns == 1
\* how many run() calls and seconds a behaviour of SpecPair holds
MaxPairStimuli == 3

Sessions == {"w1"}
Keys == {"f()"}
HistKeys == {"f()", "g()"}
Seeds == {1000, 2000}
Durations == {0, 1000, 2000, 3000}
Values == {"None", "v"}
Errors == {"err"}

None == "None"
Unset == "unset"

VARIABLES
    now,              \* time.time(), in milliseconds
    prediction_time,  \* the module level PredictionTime: key -> deque
    recorded,         \* history: per key, every end_time given to update_time
    win,              \* the RunFunctionProgressBar objects
    thread,           \* their FunctionWorker threads
    timers,           \* their FunctionTimer objects, in creation order
    events,           \* queued signals of the workers, posted to the main thread
    observed,         \* per window, what its observers saw since the last run()
    stimuli           \* number of external stimuli the behaviour may still take

vars == <<now, prediction_time, recorded, win, thread, timers, events, observed,
          stimuli>>

\* ------------------------------------------------------------------ helpers
RECURSIVE Sum(_)
Sum(q) == IF q = <<>> THEN 0 ELSE Head(q) + Sum(Tail(q))

\* int(a/b) of Python: truncation toward zero (b # 0)
Abs(x) == IF x < 0 THEN -x ELSE x
TruncDiv(a, b) ==
    IF (a >= 0) = (b > 0) THEN Abs(a) \div Abs(b) ELSE -(Abs(a) \div Abs(b))

Min(a, b) == IF a < b THEN a ELSE b

\* a duration as a fraction n/d of milliseconds (sum(time_queue)/len(time_queue))
Frac(n, d) == [n |-> n, d |-> d]

\* ----------------------------------------------------------- PredictionTime
\* _set_time without the popleft() of a full deque
_set_time_noevict(pt, key, end_time) ==
    IF key \in DOMAIN pt
    THEN [pt EXCEPT ![key] = Append(@, end_time)]
    ELSE (key :> <<end_time>>) @@ pt

\* PredictionTime._set_time
_set_time(pt, key, end_time) ==
    IF key \in DOMAIN pt
    THEN [pt EXCEPT ![key] =
            Append(IF Len(@) >= QUEUE_LEN THEN Tail(@) ELSE @, end_time)]
    ELSE (key :> <<end_time>>) @@ pt

\* PredictionTime.update_time
update_time(pt, key, end_time) == _set_time(pt, key, end_time)

\* init_time without its test of the key
init_time_always(pt, key, end_time) == _set_time(pt, key, end_time)

\* PredictionTime.init_time
init_time(pt, key, end_time) ==
    IF ~(key \in DOMAIN pt) THEN _set_time(pt, key, end_time) ELSE pt

\* get_time dividing by the capacity of the deque instead of its length
get_time_by_capacity(pt, key) == Frac(Sum(pt[key]), QUEUE_LEN)

\* PredictionTime.get_time: sum(time_queue)/len(time_queue)
get_time(pt, key) == Frac(Sum(pt[key]), Len(pt[key]))

\* a call of PredictionTime.get_time and how it ends: super().__getitem__
\* raises KeyError for a key that is not in the dictionary
get_time_call(pt, key) ==
    IF key \in DOMAIN pt
    THEN [raises |-> None, returns |-> get_time(pt, key)]
    ELSE [raises |-> "KeyError", returns |-> None]

\* ------------------------------------------------------------ FunctionTimer
\* FunctionTimer.__init__; millisec = int(end_time*10) with end_time in
\* seconds, that is int(end_time/100) with end_time in milliseconds
FunctionTimer(end_time, connected) ==
    [end_time    |-> end_time,
     millisec    |-> TruncDiv(end_time.n * 10, end_time.d * MSEC_PER_SEC),
     i           |-> 0,
     start_time  |-> now,
     finish_flag |-> FALSE,
     active      |-> FALSE,
     connected   |-> connected]

\* FunctionTimer.start: QTimer.start(msec); Qt refuses a negative interval
timer_start(t) == [t EXCEPT !.active = (t.millisec >= 0)]

\* FunctionTimer.get_percentage (end_time # 0)
get_percentage(t, max_per) ==
    Min(TruncDiv((now - t.start_time) * t.end_time.d * 100, t.end_time.n), max_per)

\* FunctionTimer.finish: the state it leaves
timer_finish(t) == [t EXCEPT !.finish_flag = TRUE, !.active = FALSE]

\* --------------------------------------------------------------- QThread
isRunning(t) == t.pc \in {"closure", "emitted", "finally"}
isFinished(t) == t.pc = "finished"

\* QThread.terminate: asks the OS to end the thread; the thread may or may
\* not end immediately
terminate(t) == IF isRunning(t) THEN [t EXCEPT !.terminated = TRUE] ELSE t

\* ------------------------------------------------------------ observations
\* progress_changed(v) of the k-th FunctionTimer, delivered to
\* _update_progressbar; src is "tick" (increment) or "finish" (finish)
Pct(v, k, src) == [ev |-> "pct", v |-> v, k |-> k, src |-> src, r |-> None, e |-> None]
\* finish_signal: the connected slot reads result_values and error_status;
\* src is the method that emits it
Fin(w, src) ==
    [ev |-> "finish", v |-> 0, k |-> 0, src |-> src,
     r |-> w.result_values, e |-> w.error_status]
\* error_signal of the window
Err == [ev |-> "error", v |-> 0, k |-> 0, src |-> None, r |-> None, e |-> None]
\* the worker's result_signal, handled by _result
Res == [ev |-> "result", v |-> 0, k |-> 0, src |-> None, r |-> None, e |-> None]

\* What the observers of one window have seen since its last run(): a
\* summary of the sequence of events, kept instead of the sequence.
NoObs ==
    [fins     |-> 0,       \* finish_signal emissions
     fin_src  |-> None,    \* the method that emitted the first one
     fin_r    |-> Unset,   \* result_values read at the first one
     fin_e    |-> Unset,   \* error_status read at the first one
     cancelled |-> FALSE,  \* closeEvent took its cancellation branch
     last     |-> -1,      \* the last percentage delivered (-1: none yet)
     down     |-> FALSE,   \* a percentage was lower than the one before it
     range    |-> TRUE,    \* every percentage was in 0..100
     tick99   |-> TRUE,    \* every percentage of increment() was <= 99
     after100 |-> FALSE,   \* a percentage was delivered after a 100
     late     |-> {}]      \* kinds of events seen after a finish_signal

Observe1(o, x) ==
    CASE x.ev = "finish" ->
            [o EXCEPT !.fins = @ + 1,
                      !.fin_src = IF o.fins = 0 THEN x.src ELSE @,
                      !.fin_r = IF o.fins = 0 THEN x.r ELSE @,
                      !.fin_e = IF o.fins = 0 THEN x.e ELSE @,
                      !.cancelled = @ \/ x.src = "closeEvent"]
      [] x.ev = "pct" ->
            [o EXCEPT !.last = x.v,
                      !.down = @ \/ (o.last # -1 /\ x.v < o.last),
                      !.range = @ /\ x.v >= 0 /\ x.v <= FULL_PER,
                      !.tick99 = @ /\ (x.src = "tick" => x.v <= MAX_PER),
                      !.after100 = @ \/ o.last = FULL_PER,
                      !.late = IF o.fins > 0 THEN @ \cup {"pct"} ELSE @]
      [] x.ev = "error" ->
            [o EXCEPT !.late = IF o.fins > 0 THEN @ \cup {"error"} ELSE @]
      [] OTHER ->
            [o EXCEPT !.late = IF o.fins > 0 THEN @ \cup {"result"} ELSE @]

RECURSIVE Observe(_, _)
Observe(o, xs) ==
    IF xs = <<>> THEN o ELSE Observe(Observe1(o, Head(xs)), Tail(xs))

\* ----------------------------------------------------------------- Init
NoWin == [constructed |-> FALSE, key_name |-> None,
          result_values |-> Unset, error_status |-> Unset,
          start_time |-> 0, predicted_time |-> Frac(0, 1),
          runs |-> 0, notices |-> 0]

\* pc: where run() stands; emits: the signals this execution has emitted;
\* escaped: an exception left run(); terminated: terminate() was called on it;
\* started: time.time() when this execution was started
NoThread == [pc |-> "notstarted", emits |-> <<>>, escaped |-> FALSE,
             terminated |-> FALSE, started |-> 0]

Init ==
    /\ now = 0
    /\ prediction_time = <<>>
    /\ recorded = [k \in HistKeys |-> <<>>]
    /\ win = [s \in Sessions |-> NoWin]
    /\ thread = [s \in Sessions |-> NoThread]
    /\ timers = [s \in Sessions |-> <<>>]
    /\ events = <<>>
    /\ observed = [s \in Sessions |-> NoObs]
    /\ stimuli = MaxStimuli

\* RunFunctionProgressBar.__init__
Construct(s, key, init_end_time) ==
    /\ ~win[s].constructed
    /\ win' = [win EXCEPT ![s] = [NoWin EXCEPT !.constructed = TRUE, !.key_name = key]]
    /\ thread' = [thread EXCEPT ![s] = NoThread]
    /\ prediction_time' = init_time(prediction_time, key, init_end_time)
    /\ timers' = [timers EXCEPT ![s] = <<FunctionTimer(Frac(init_end_time, 1), FALSE)>>]
    /\ UNCHANGED <<now, recorded, events, observed, stimuli>>

\* _reset_timer pacing the new FunctionTimer with init_end_time, as
\* __init__ does, instead of get_time
_reset_timer_seed(s) == FunctionTimer(timers[s][1].end_time, TRUE)

\* RunFunctionProgressBar._reset_timer: the FunctionTimer that replaces
\* self.function_timer (the old one stays a child QObject of the window)
_reset_timer(s) ==
    FunctionTimer(get_time(prediction_time, win[s].key_name), TRUE)

\* run() without its re-entrancy test
run_guard_never(t) == FALSE

\* RunFunctionProgressBar.run: the re-entrancy test
run_guard(t) == isRunning(t)

\* QThread.start: does nothing when the thread is already running
thread_start(t) ==
    IF isRunning(t) THEN t
    ELSE [pc |-> "closure", emits |-> <<>>, escaped |-> FALSE, terminated |-> FALSE,
          started |-> now]

\* RunFunctionProgressBar.run
Run(s) ==
    /\ win[s].constructed
    /\ stimuli > 0
    /\ stimuli' = stimuli - 1
    /\ IF run_guard(thread[s])
       THEN \* print("Working now")
            /\ win' = [win EXCEPT ![s].notices = @ + 1]
            /\ UNCHANGED <<now, prediction_time, recorded, thread, timers, events, observed>>
       ELSE /\ win' = [win EXCEPT ![s].predicted_time = get_time(prediction_time, win[s].key_name),
                                  ![s].start_time = now,
                                  ![s].runs = @ + 1]
            /\ thread' = [thread EXCEPT ![s] = thread_start(@)]
            /\ timers' = [timers EXCEPT ![s] = Append(@, timer_start(_reset_timer(s)))]
            /\ observed' = [observed EXCEPT ![s] = NoObs]
            /\ UNCHANGED <<now, prediction_time, recorded, events>>

\* ------------------------------------------------------- FunctionWorker.run
Post(sig, s, val) == [sig |-> sig, s |-> s, val |-> val]

\* try: r = self.closure()  else: self.result_signal.emit(r)
WorkerReturn(s, r) ==
    /\ thread[s].pc = "closure"
    /\ thread' = [thread EXCEPT ![s].pc = "emitted", ![s].emits = Append(@, "result")]
    /\ events' = Append(events, Post("result", s, r))
    /\ UNCHANGED <<now, prediction_time, recorded, win, timers, observed, stimuli>>

\* except Exception as e: self.error_signal.emit((e, traceback.format_exc()))
WorkerRaise(s, e) ==
    /\ thread[s].pc = "closure"
    /\ thread' = [thread EXCEPT ![s].pc = "emitted",
                                ![s].emits = Append(@, "error")]
    /\ events' = Append(events, Post("error", s, e))
    /\ UNCHANGED <<now, prediction_time, recorded, win, timers, observed, stimuli>>

\* the closure raises a BaseException that is no Exception (SystemExit, ...):
\* no except clause matches, the finally clause runs, the exception leaves run()
WorkerRaiseBase(s) ==
    /\ thread[s].pc = "closure"
    /\ thread' = [thread EXCEPT ![s].pc = "emitted", ![s].escaped = TRUE]
    /\ UNCHANGED <<now, prediction_time, recorded, win, timers, events, observed, stimuli>>

\* finally: self.finished_signal.emit(); the queued signal is tagged with
\* the time at which the execution that emits it was started
WorkerFinally(s) ==
    /\ thread[s].pc = "emitted"
    /\ thread' = [thread EXCEPT ![s].pc = "finally", ![s].emits = Append(@, "finished")]
    /\ events' = Append(events, Post("finished", s, thread[s].started))
    /\ UNCHANGED <<now, prediction_time, recorded, win, timers, observed, stimuli>>

\* run() returns and the thread ends: isFinished() becomes true
WorkerExit(s) ==
    /\ thread[s].pc = "finally"
    /\ thread' = [thread EXCEPT ![s].pc = "finished"]
    /\ UNCHANGED <<now, prediction_time, recorded, win, timers, events, observed, stimuli>>

\* a terminate()d thread is ended by the OS wherever it is
WorkerKilled(s) ==
    /\ thread[s].terminated
    /\ isRunning(thread[s])
    /\ thread' = [thread EXCEPT ![s].pc = "finished"]
    /\ UNCHANGED <<now, prediction_time, recorded, win, timers, events, observed, stimuli>>

\* ------------------------------------------- RunFunctionProgressBar, slots
\* closeEvent: the test that selects the cancellation branch
close_guard(t) == ~isFinished(t)

\* closeEvent: the fields it stores
closeEvent_win(w, t) ==
    IF close_guard(t)
    THEN [w EXCEPT !.result_values = None, !.error_status = None]
    ELSE w

\* closeEvent: self.func_thread.terminate()
closeEvent_thread(t) == IF close_guard(t) THEN terminate(t) ELSE t

\* closeEvent: finish_signal.emit(); error_signal.emit()
closeEvent_emits(w, t) ==
    IF close_guard(t) THEN <<Fin(closeEvent_win(w, t), "closeEvent"), Err>> ELSE <<>>

\* an external close request: QWidget.close() / the window's close button
Close(s) ==
    /\ win[s].constructed
    /\ stimuli > 0
    /\ stimuli' = stimuli - 1
    /\ win' = [win EXCEPT ![s] = closeEvent_win(@, thread[s])]
    /\ thread' = [thread EXCEPT ![s] = closeEvent_thread(@)]
    /\ observed' = [observed EXCEPT ![s] = Observe(@, closeEvent_emits(win[s], thread[s]))]
    /\ UNCHANGED <<now, prediction_time, recorded, timers, events>>

\* RunFunctionProgressBar._result
_result(s) ==
    /\ events # <<>>
    /\ Head(events).sig = "result"
    /\ Head(events).s = s
    /\ events' = Tail(events)
    /\ win' = [win EXCEPT ![s].result_values = Head(events).val,
                          ![s].error_status = None]
    /\ observed' = [observed EXCEPT ![s] = Observe(@, <<Res>>)]
    /\ UNCHANGED <<now, prediction_time, recorded, thread, timers, stimuli>>

\* RunFunctionProgressBar._error
_error(s) ==
    /\ events # <<>>
    /\ Head(events).sig = "error"
    /\ Head(events).s = s
    /\ events' = Tail(events)
    /\ win' = [win EXCEPT ![s].error_status = Head(events).val,
                          ![s].result_values = None]
    /\ observed' = [observed EXCEPT ![s] = Observe(@, <<Err>>)]
    /\ UNCHANGED <<now, prediction_time, recorded, thread, timers, stimuli>>

\* FunctionTimer.finish: progress_changed.emit(100)
finish_emits(t, k) == IF t.connected THEN <<Pct(FULL_PER, k, "finish")>> ELSE <<>>

\* _finished: what it emits before it closes the window
finished_emits(s) ==
    <<Fin(win[s], "_finished")>> \o finish_emits(timers[s][Len(timers[s])], Len(timers[s]))

\* RunFunctionProgressBar._finished
_finished(s) ==
    /\ events # <<>>
    /\ Head(events).sig = "finished"
    /\ Head(events).s = s
    /\ events' = Tail(events)
    /\ LET p_time == now - win[s].start_time
       IN /\ prediction_time' = update_time(prediction_time, win[s].key_name, p_time)
          /\ recorded' = [recorded EXCEPT ![win[s].key_name] = Append(@, p_time)]
    /\ timers' = [timers EXCEPT ![s][Len(timers[s])] = timer_finish(@)]
    \* self.close()
    /\ win' = [win EXCEPT ![s] = closeEvent_win(@, thread[s])]
    /\ thread' = [thread EXCEPT ![s] = closeEvent_thread(@)]
    /\ observed' = [observed EXCEPT ![s] =
            Observe(@, finished_emits(s) \o closeEvent_emits(win[s], thread[s]))]
    /\ UNCHANGED <<now, stimuli>>

\* FunctionTimer.increment: what it emits (get_percentage raises
\* ZeroDivisionError when end_time is 0)
increment_emits(t, k) ==
    IF ~t.finish_flag /\ t.i + 1 < TICK_LIMIT /\ t.end_time.n # 0 /\ t.connected
    THEN <<Pct(get_percentage(t, MAX_PER), k, "tick")>>
    ELSE <<>>

\* FunctionTimer.increment: the state it leaves; the QTimer is not
\* single shot and keeps firing at its interval
increment(t) ==
    IF ~t.finish_flag THEN [t EXCEPT !.i = @ + 1] ELSE t

\* QTimer.timeout of the k-th FunctionTimer of window s
TimerTimeout(s, k) ==
    /\ k \in DOMAIN timers[s]
    /\ timers[s][k].active
    /\ stimuli > 0
    /\ stimuli' = stimuli - 1
    /\ timers' = [timers EXCEPT ![s][k] = increment(@)]
    /\ observed' = [observed EXCEPT ![s] = Observe(@, increment_emits(timers[s][k], k))]
    /\ UNCHANGED <<now, prediction_time, recorded, win, thread, events>>

\* a second passes
Tick ==
    /\ stimuli > 0
    /\ stimuli' = stimuli - 1
    /\ now' = now + MSEC_PER_SEC
    /\ UNCHANGED <<prediction_time, recorded, win, thread, timers, events, observed>>

Next ==
    \/ \E s \in Sessions, key \in Keys, seed \in Seeds : Construct(s, key, seed)
    \/ \E s \in Sessions : Run(s)
    \/ \E s \in Sessions, r \in Values : WorkerReturn(s, r)
    \/ \E s \in Sessions, e \in Errors : WorkerRaise(s, e)
    \/ \E s \in Sessions : WorkerRaiseBase(s)
    \/ \E s \in Sessions : WorkerFinally(s)
    \/ \E s \in Sessions : WorkerExit(s)
    \/ \E s \in Sessions : WorkerKilled(s)
    \/ \E s \in Sessions : Close(s)
    \/ \E s \in Sessions : _result(s)
    \/ \E s \in Sessions : _error(s)
    \/ \E s \in Sessions : _finished(s)
    \/ \E s \in Sessions, k \in 1..(MaxRerunStimuli + 1) : TimerTimeout(s, k)
    \/ Tick

Spec == Init /\ [][Next]_vars

\* ------------------------------------------------------------------ reruns
\* Longer behaviours of one window whose task, when it ends by itself,
\* returns the value "v": every behaviour of SpecRerun is a behaviour of the program.
InitRerun ==
    /\ now = 0
    /\ prediction_time = <<>>
    /\ recorded = [k \in HistKeys |-> <<>>]
    /\ win = [s \in Sessions |-> NoWin]
    /\ thread = [s \in Sessions |-> NoThread]
    /\ timers = [s \in Sessions |-> <<>>]
    /\ events = <<>>
    /\ observed = [s \in Sessions |-> NoObs]
    /\ stimuli = MaxRerunStimuli

NextRerun ==
    \/ \E s \in Sessions, key \in Keys, seed \in Seeds : Construct(s, key, seed)
    \/ \E s \in Sessions : Run(s)
    \/ \E s \in Sessions : WorkerReturn(s, "v")
    \/ \E s \in Sessions : WorkerFinally(s)
    \/ \E s \in Sessions : WorkerExit(s)
    \/ \E s \in Sessions : WorkerKilled(s)
    \/ \E s \in Sessions : Close(s)
    \/ \E s \in Sessions : _result(s)
    \/ \E s \in Sessions : _finished(s)
    \/ \E s \in Sessions, k \in 1..(MaxRerunStimuli + 1) : TimerTimeout(s, k)
    \/ Tick

SpecRerun == InitRerun /\ [][NextRerun]_vars

\* ----------------------------------------------------- PredictionTime alone
\* The calls of init_time and update_time, with inputs drawn from Seeds and
\* Durations, in any order.
RECURSIVE TotalRecorded(_)
TotalRecorded(K) ==
    IF K = {} THEN 0
    ELSE LET k == CHOOSE x \in K : TRUE
         IN Len(recorded[k]) + TotalRecorded(K \ {k})

HistInit(key, seed) ==
    /\ prediction_time' = init_time(prediction_time, key, seed)
    /\ UNCHANGED <<now, recorded, win, thread, timers, events, observed, stimuli>>

HistRecord(key, d) ==
    /\ TotalRecorded(HistKeys) < MaxOps
    /\ prediction_time' = update_time(prediction_time, key, d)
    /\ recorded' = [recorded EXCEPT ![key] = Append(@, d)]
    /\ UNCHANGED <<now, win, thread, timers, events, observed, stimuli>>

NextHist ==
    \/ \E key \in HistKeys, seed \in Seeds : HistInit(key, seed)
    \/ \E key \in HistKeys, d \in Durations : HistRecord(key, d)

SpecHist == Init /\ [][NextHist]_vars

\* -------------------------------------------------------------- the clock
\* One window whose QTimers fire exactly at their interval and are served
\* at once: the event loop is idle apart from them. The task returns "v" at
\* any moment, or never.
ClockSeeds == {-1000, 0, 50, 1000, 1050}

InitClock ==
    /\ now = 0
    /\ prediction_time = <<>>
    /\ recorded = [k \in HistKeys |-> <<>>]
    /\ win = [s \in Sessions |-> NoWin]
    /\ thread = [s \in Sessions |-> NoThread]
    /\ timers = [s \in Sessions |-> <<>>]
    /\ events = <<>>
    /\ observed = [s \in Sessions |-> NoObs]
    /\ stimuli = MaxClockStimuli

\* when the QTimer of FunctionTimer t fires next: FunctionTimer.start and
\* every increment before the hundredth call QTimer.start(millisec), and the
\* QTimer repeats at the same interval after that
due(t) == t.start_time + (t.i + 1) * t.millisec

\* the times at which the running QTimers fire next
Dues ==
    UNION {{due(timers[s][k]) : k \in {j \in DOMAIN timers[s] : timers[s][j].active}} :
           s \in Sessions}

\* run(), at most MaxClockRuns times
ClockRun(s) ==
    /\ win[s].runs < MaxClockRuns
    /\ Run(s)

\* QTimer.timeout when the interval has elapsed
ClockTimeout(s, k) ==
    /\ k \in DOMAIN timers[s]
    /\ due(timers[s][k]) <= now
    /\ TimerTimeout(s, k)

\* time passes up to the next timeout; a second passes when no QTimer runs
\* and a task is in its closure
ClockAdvance ==
    /\ \A d \in Dues : d > now
    /\ IF Dues # {}
       THEN /\ now' = CHOOSE d \in Dues : \A e \in Dues : d <= e
            /\ UNCHANGED stimuli
       ELSE /\ \E s \in Sessions : thread[s].pc = "closure"
            /\ stimuli > 0
            /\ stimuli' = stimuli - 1
            /\ now' = now + MSEC_PER_SEC
    /\ UNCHANGED <<prediction_time, recorded, win, thread, timers, events, observed>>

NextClock ==
    \/ \E s \in Sessions, key \in Keys, seed \in ClockSeeds : Construct(s, key, seed)
    \/ \E s \in Sessions : ClockRun(s)
    \/ \E s \in Sessions : WorkerReturn(s, "v")
    \/ \E s \in Sessions : WorkerFinally(s)
    \/ \E s \in Sessions : WorkerExit(s)
    \/ \E s \in Sessions : _result(s)
    \/ \E s \in Sessions : _finished(s)
    \/ \E s \in Sessions, k \in 1..(MaxClockRuns + 1) : ClockTimeout(s, k)
    \/ ClockAdvance

SpecClock == InitClock /\ [][NextClock]_vars

\* ------------------------------------------------------------ two windows
\* Two RunFunctionProgressBar objects of one process, for the same key or
\* for different keys, sharing the module level prediction_time and the main
\* thread's event queue; their tasks return "v".
PairSessions == {"w1", "w2"}

InitPair ==
    /\ now = 0
    /\ prediction_time = <<>>
    /\ recorded = [k \in HistKeys |-> <<>>]
    /\ win = [s \in PairSessions |-> NoWin]
    /\ thread = [s \in PairSessions |-> NoThread]
    /\ timers = [s \in PairSessions |-> <<>>]
    /\ events = <<>>
    /\ observed = [s \in PairSessions |-> NoObs]
    /\ stimuli = MaxPairStimuli

NextPair ==
    \/ \E s \in PairSessions, key \in HistKeys, seed \in Seeds : Construct(s, key, seed)
    \/ \E s \in PairSessions : Run(s)
    \/ \E s \in PairSessions : WorkerReturn(s, "v")
    \/ \E s \in PairSessions : WorkerFinally(s)
    \/ \E s \in PairSessions : WorkerExit(s)
    \/ \E s \in PairSessions : _result(s)
    \/ \E s \in PairSessions : _finished(s)
    \/ Tick

SpecPair == InitPair /\ [][NextPair]_vars

\* ================================================================== claims
Constructed == {s \in Sessions : win[s].constructed}
\* the windows on which run() has started the task at least once
Ran == {s \in Sessions : win[s].runs > 0}

\* C1: in every run, finish_signal is emitted exactly once, on the
\* completion path and on the cancellation path, whatever the interleaving
\* of the worker's exit, the _finished slot and close requests: no run ever
\* sees a second finish_signal.
C1_FinishedOnce == \A s \in Ran : observed[s].fins <= 1

\* C2: finish_signal is the last observable event of a run: after it no
\* percentage (the forced 100 included), no result and no error
\* notification is observed.
C2_FinishedIsLast == \A s \in Ran : observed[s].late = {}

\* C3: once a run has reported finished, one outcome is recorded (the
\* fields are set) and it never changes: the fields the observer read at the
\* first finish_signal are the fields the window still holds.
C3_SingleOutcome ==
    \A s \in Ran :
        observed[s].fins > 0 =>
            /\ win[s].result_values # Unset
            /\ win[s].error_status # Unset
            /\ win[s].result_values = observed[s].fin_r
            /\ win[s].error_status = observed[s].fin_e

\* C4: within one run, up to its finished event, the percentages delivered
\* to the display never decrease, lie in 0..100, and those of increment()
\* are at most 99; this includes a run started after a cancelled one.
C4_Monotonic ==
    \A s \in Ran :
        observed[s].fins = 0 =>
            /\ ~observed[s].down
            /\ observed[s].range
            /\ observed[s].tick99

\* C5: when a run has reached its terminal outcome (returned, raised or
\* cancelled), the last percentage delivered is the forced 100 and none
\* followed it.
C5_LastIs100 ==
    \A s \in Ran :
        observed[s].fins > 0 =>
            /\ observed[s].last = FULL_PER
            /\ ~observed[s].after100

\* C6: run() on a window whose thread is still running is a no-op: it
\* starts no execution, replaces no FunctionTimer, keeps start_time (a
\* window has one QThread, so at most one execution is in flight).
C6_RunNoOpWhileRunning ==
    [][\A s \in Constructed :
          (isRunning(thread[s]) /\ Run(s)) =>
              /\ thread'[s] = thread[s]
              /\ timers'[s] = timers[s]
              /\ win'[s].start_time = win[s].start_time
              /\ win'[s].predicted_time = win[s].predicted_time
              /\ win'[s].runs = win[s].runs
              /\ prediction_time' = prediction_time]_vars

\* C6 witness: run() was called while the closure was executing
C6_Witness ==
    \E s \in Constructed : win[s].notices > 0 /\ thread[s].pc = "closure"

\* C7: from its cancellation on, a run does not change the PredictionTime
\* store.
C7_CancelledNeverRecords ==
    [][\A s \in Ran :
          (observed[s].cancelled /\ win'[s].runs = win[s].runs) =>
              prediction_time' = prediction_time]_vars

\* what closeEvent stores on cancellation
CancelledFields ==
    LET w == closeEvent_win(NoWin, NoThread)
    IN <<w.result_values, w.error_status>>

\* C8: the fields a cancellation stores differ from the fields of every
\* run that completed by itself (a task that returned, None included, or
\* raised): a finish_signal of _finished never shows the cancellation's fields.
C8_CancelledDistinguishable ==
    \A s \in Ran :
        (observed[s].fins > 0 /\ observed[s].fin_src = "_finished") =>
            <<observed[s].fin_r, observed[s].fin_e>> # CancelledFields

\* C9: an execution that is not terminated emits result_signal or
\* error_signal, exactly one of them, and then finished_signal once; no
\* exception leaves run().
C9_WorkerProtocol ==
    \A s \in Ran :
        ~thread[s].terminated =>
            /\ ~thread[s].escaped
            /\ thread[s].pc = "closure" => thread[s].emits = <<>>
            /\ thread[s].pc = "emitted" =>
                   thread[s].emits \in {<<"result">>, <<"error">>}
            /\ thread[s].pc \in {"finally", "finished"} =>
                   thread[s].emits \in {<<"result", "finished">>,
                                        <<"error", "finished">>}

\* C10: every key keeps at most QUEUE_LEN durations; once more than
\* QUEUE_LEN durations were recorded for a key, its deque is the last three
\* recorded, in order, and get_time is their mean.
C10_HistoryBound ==
    /\ \A k \in DOMAIN prediction_time :
          Len(prediction_time[k]) \in 1..QUEUE_LEN
    /\ \A k \in HistKeys :
          LET r == recorded[k]
              n == Len(r)
          IN n > 3 =>
                /\ k \in DOMAIN prediction_time
                /\ prediction_time[k] = <<r[n - 2], r[n - 1], r[n]>>
                /\ get_time(prediction_time, k) = Frac(r[n - 2] + r[n - 1] + r[n], 3)

\* C10 witness: a fifth duration was recorded for a key that was seeded
C10_Witness ==
    \E k \in HistKeys : Len(recorded[k]) > 4 /\ k \in DOMAIN prediction_time

\* C12: the seed is not counted as a measurement: once the first duration d
\* of a key was recorded by a run, the deque of the key is exactly <<d>> and
\* get_time is d (the next run is paced by d).
C12_SeedNotCounted ==
    \A s \in Ran :
        LET k == win[s].key_name
        IN Len(recorded[k]) = 1 =>
              /\ prediction_time[k] = recorded[k]
              /\ get_time(prediction_time, k) = Frac(recorded[k][1], 1)

\* the percentages a window has displayed, as far as observed keeps them
Displayed(o) == <<o.last, o.down, o.range, o.tick99, o.after100>>

\* C19: FunctionTimer.finish() is idempotent: when _finished calls it on a
\* FunctionTimer that has already finished, no percentage is emitted and
\* the FunctionTimer does not change.
C19_FinishIdempotent ==
    [][\A s \in Ran :
          (_finished(s) /\ timers[s][Len(timers[s])].finish_flag) =>
              /\ Displayed(observed'[s]) = Displayed(observed[s])
              /\ timers'[s] = timers[s]]_vars

\* C11: init_time(key, seed) on a key with no record, followed
\* immediately by get_time(key), returns exactly seed.
C11_SeedPrecedence ==
    [][\A key \in HistKeys, seed \in Seeds :
          (~(key \in DOMAIN prediction_time) /\ HistInit(key, seed)) =>
              get_time_call(prediction_time', key) =
                  [raises |-> None, returns |-> Frac(seed, 1)]]_vars

\* C11 witness: a key was seeded and nothing was recorded for it
C11_Witness ==
    \E k \in DOMAIN prediction_time :
        /\ recorded[k] = <<>>
        /\ Len(prediction_time[k]) = 1
        /\ prediction_time[k][1] \in Seeds

\* C16: get_time on a key with no record returns 0 and raises nothing.
C16_PredictMissing ==
    \A k \in HistKeys :
        ~(k \in DOMAIN prediction_time) =>
            get_time_call(prediction_time, k) =
                [raises |-> None, returns |-> Frac(0, 1)]

\* C18: update_time never stores a duration <= 0: once a duration was
\* recorded for a key, every duration its deque holds is > 0 and get_time
\* of the key is > 0.
C18_RecordClamps ==
    \A k \in DOMAIN prediction_time :
        recorded[k] # <<>> =>
            /\ \A i \in DOMAIN prediction_time[k] : prediction_time[k][i] > 0
            /\ get_time(prediction_time, k).n > 0

\* the FunctionTimer that run() has started last
Clock(s) == timers[s][Len(timers[s])]

\* C17: a seed or a predicted duration <= 0 is clamped: the clock that
\* run() starts for such a window has a tick interval > 0 and divides by a
\* duration > 0 (so that get_percentage does not raise).
C17_DegenerateClamped ==
    \A s \in Ran :
        (timers[s][1].end_time.n <= 0 \/ win[s].predicted_time.n <= 0) =>
            /\ Clock(s).millisec > 0
            /\ Clock(s).end_time.n > 0

\* C20: for a predicted duration > 0, while the task is still in its
\* closure, the clock does not stop emitting below 99: whenever increment()
\* has reached the tick after which it emits nothing more, the last
\* percentage displayed is 99.
C20_StallsAt99 ==
    \A s \in Ran :
        (/\ thread[s].pc = "closure"
         /\ Clock(s).end_time.n > 0
         /\ Clock(s).i + 1 >= TICK_LIMIT) =>
            observed[s].last = MAX_PER

\* C13: a run() that starts the task paces its FunctionTimer with get_time
\* of the key as the store is at that moment: the mean of the key's deque,
\* whose last entries are the durations recorded last for the key, by this
\* window or by another one.
C13_PacedByHistory ==
    [][\A s \in PairSessions :
          (win[s].constructed /\ ~isRunning(thread[s]) /\ Run(s)) =>
              LET q == prediction_time[win[s].key_name]
                  r == recorded[win[s].key_name]
                  m == Min(Len(r), QUEUE_LEN)
                  c == timers'[s][Len(timers'[s])]
              IN /\ Len(timers'[s]) = Len(timers[s]) + 1
                 /\ c.end_time = Frac(Sum(q), Len(q))
                 /\ c.millisec = TruncDiv(Sum(q) * 10, Len(q) * MSEC_PER_SEC)
                 /\ c.active
                 /\ win'[s].predicted_time = c.end_time
                 /\ \A i \in 1..m : q[Len(q) - m + i] = r[Len(r) - m + i]]_vars

\* C13 witness: window t runs, paced by the mean of the seed and of the
\* duration that another window s of the same key has recorded
C13_Witness ==
    \E s, t \in PairSessions :
        /\ s # t
        /\ win[s].key_name = win[t].key_name
        /\ win[s].runs = 1
        /\ win[t].runs = 1
        /\ thread[t].pc = "closure"
        /\ Len(recorded[win[t].key_name]) = 1
        /\ Len(timers[t]) = 2
        /\ timers[t][2].end_time.d = 2

\* C14: constructing a window for a key that has a record (init_time on
\* an existing key) changes no deque of the store, whatever the seed.
C14_InitNoOp ==
    [][\A s \in PairSessions, key \in HistKeys, seed \in Seeds :
          (key \in DOMAIN prediction_time /\ Construct(s, key, seed)) =>
              prediction_time' = prediction_time]_vars

\* C14 witness: two windows were constructed for one key with different
\* seeds
C14_Witness ==
    \E s, t \in PairSessions :
        /\ s # t
        /\ win[s].constructed
        /\ win[t].constructed
        /\ win[s].key_name = win[t].key_name
        /\ timers[s][1].end_time # timers[t][1].end_time
        /\ win[s].key_name \in DOMAIN prediction_time

\* the last n elements of q
LastN(q, n) == IF Len(q) > n THEN SubSeq(q, Len(q) - n + 1, Len(q)) ELSE q

\* C15: under every interleaving of two windows, a step that records
\* nothing for a key leaves the key's deque unchanged, and the deque of a
\* key holds exactly the durations recorded for it, in order, up to QUEUE_LEN.
C15_ExactlyRecorded ==
    [][/\ \A k \in DOMAIN prediction_time :
              recorded'[k] = recorded[k] =>
                  /\ k \in DOMAIN prediction_time'
                  /\ prediction_time'[k] = prediction_time[k]
       /\ \A k \in DOMAIN prediction_time' :
              recorded'[k] # <<>> =>
                  prediction_time'[k] = LastN(recorded'[k], QUEUE_LEN)]_vars

\* C21: every handling of a run's finished_signal appends exactly one
\* duration to the history of the key, and that duration is the time from
\* the start of the run that emitted the signal to this handling; also
\* when run() was called again before the signal was handled.
C21_DurationOfSameRun ==
    [][\A s \in Ran :
          _finished(s) =>
              recorded'[win[s].key_name] =
                  Append(recorded[win[s].key_name], now - Head(events).val)]_vars

\* C22: a close request on a window whose thread is not running (never
\* started, or ended) emits nothing, terminates nothing and leaves
\* result_values and error_status as they are.
C22_CloseWhenIdle ==
    [][\A s \in Constructed :
          (~isRunning(thread[s]) /\ Close(s)) =>
              /\ observed'[s] = observed[s]
              /\ thread'[s] = thread[s]
              /\ win'[s].result_values = win[s].result_values
              /\ win'[s].error_status = win[s].error_status]_vars
====
